---- MODULE Spec2Model ----
(***************************************************************************)
(* Model of src/index.js: the MikroTik changelog / WinBox poller.          *)
(*                                                                         *)
(* One process: the startup IIFE loads the lowdb file and runs main();     *)
(* scheduler() arms a 60 s timer whose callback runs main() again.         *)
(* main() starts one task per RSS feed plus the WinBox task, joins them    *)
(* with Promise.all, writes the database, and sends the queued embeds.     *)
(* JavaScript is single-threaded: every action below is the code that      *)
(* runs between two awaits.                                                *)
(***************************************************************************)
EXTENDS Integers, Sequences, FiniteSets, TLC

(* ---------------------------------------------------------------- bounds *)
\* Publication dates (epoch ms in the code) are drawn from 1..MaxDate.
MaxDate == 2
\* WinBox versions shown on the download page are drawn from 1..MaxVer.
MaxVer == 2
\* Publications (a feed item, or a WinBox version on the download page) the
\* vendor makes over one run.
MaxItems == 2
\* Cycles (calls of main) over one run.
MaxCycles == 2
\* Process restarts over one run.
MaxRestarts == 1
\* Words in an item's title, for the calls of determineCategory.
MaxTitle == 2
\* Lines of a stripped description, for the description formatting.
MaxLines == 9
\* Characters of a long description line.
LongLine == 1100

(* ------------------------------------------------------- program values *)
\* changelogRSSList has three feeds; a feed is named by its index.
NumRSS == 3
changelogRSSList == 1..NumRSS
\* The WinBox task's source (the download page).
winboxPage == 0
Sources == changelogRSSList \cup {winboxPage}

\* new Date(pubDate).getTime() of a date string that does not parse.
NaN == -1
\* A key that lastRSSDate does not hold.
Undefined == -2
\* The default lastWinBoxVersion, "".
EmptyVersion == 0

Dates == 1..MaxDate
JsDates == Dates \cup {NaN}
Versions == 1..MaxVer
\* setTime() without argument stamps the WinBox embed with the current time,
\* which is later than every publication date.
Now == MaxDate + 1

\* JavaScript's <= and > on numbers: every comparison with NaN is false.
Leq(a, b) == a # NaN /\ b # NaN /\ a <= b
Gt(a, b) == a # NaN /\ b # NaN /\ a > b

\* A feed item as fast-xml-parser hands it over: the parsed pubDate, whether
\* title is a string (title.includes exists) and whether content:encoded is a
\* string (content.replaceAll exists).
Item(d, t, c) == [pubDate |-> d, titleIsString |-> t, contentIsString |-> c]
\* The items the vendor publishes: a well-formed item of each date (a date that
\* does not parse included), one whose title is no string (it throws before
\* its date is looked at), and one of the latest date without content.
Items == {Item(d, TRUE, TRUE) : d \in JsDates}
         \cup {Item(NaN, FALSE, TRUE), Item(MaxDate, TRUE, FALSE)}

\* db.data
DefaultData == [lastWinBoxVersion |-> EmptyVersion,
                lastRSSDate |-> [r \in changelogRSSList |-> Undefined]]

\* db.data.lastRSSDate[rss] || 0
StoredOldestDate(d, rss) ==
    IF d.lastRSSDate[rss] = Undefined \/ d.lastRSSDate[rss] = 0
    THEN 0 ELSE d.lastRSSDate[rss]

\* The embed built for a feed item, and the one built for a WinBox version.
RSSEmbed(rss, jsDate) == [src |-> rss, time |-> jsDate, ver |-> EmptyVersion]
WinBoxEmbed(parsedVer) == [src |-> winboxPage, time |-> Now, ver |-> parsedVer]

\* Array.prototype.reverse
RECURSIVE Reverse(_)
Reverse(s) == IF s = <<>> THEN <<>> ELSE Append(Reverse(Tail(s)), Head(s))

(* ------------------------------------------------------------ variables *)
VARIABLES
    debugMode,      \* --debug
    runOnceMode,    \* --once
    persisted,      \* data/data.json: [kind, content]
    data,           \* db.data (DefaultData stands for null before db.read)
    pc,             \* "boot" | "tasks" | "send" | "sleep" | "exit"
    inIIFE,         \* the running cycle was started by the startup IIFE
    status,         \* per source task: "pending" | "failed" | "skipped" | "itemfail" | "ok"
    batch,          \* per feed: the items its task got this cycle
    embedsToSend,   \* main's local array
    sendIdx,        \* number of Hook.send attempts made in this cycle
    firstFail,      \* position of the first failed send of this cycle, 0 if none
    written,        \* db.write of this cycle: "no" | "ok" | "failed"
    threw,          \* the last main() rejected
    feed,           \* the vendor's feeds: per feed, a sequence of items
    page,           \* the WinBox version the download page shows
    cycles,         \* calls of main() over the run
    runs,           \* calls of main() by this process
    restarts, published,
    startData,      \* db.data when the cycle started
    startPersisted, \* the file when the cycle started
    changed,        \* the vendor changed a feed or the page since the cycle started
    replay,         \* this cycle fetches what the previous one fetched
    announcedIn,    \* per feed and date: the cycle that first queued it, 0 if none
    requeued,       \* an item queued in an earlier cycle was queued again
    writeFailedEver, \* some db.write failed
    call            \* one item going through the forEach body, on its own

vars == <<debugMode, runOnceMode, persisted, data, pc, inIIFE, status, batch,
          embedsToSend, sendIdx, firstFail, written, threw, feed, page, cycles,
          runs, restarts, published, startData, startPersisted, changed, replay,
          announcedIn, requeued, writeFailedEver, call>>

config == <<debugMode, runOnceMode>>
world == <<feed, page, published>>
history == <<announcedIn, requeued>>

AllPending == [s \in Sources |-> "pending"]
NoBatch == [r \in changelogRSSList |-> <<>>]
\* Variant: the join resolves with the first task that settles.
AnySettled == \E s \in Sources : status[s] # "pending"

\* await Promise.all([...]) resolves: every task has settled.
Settled == \A s \in Sources : status[s] # "pending"
\* The fetch returned status 200 and a body.
Fetched(st) == st \in {"skipped", "itemfail", "ok"}

\* No item is going through the forEach body on its own.
NoCall == [step |-> "none"]

\* The process before the startup IIFE has run.
Boot ==
    /\ debugMode \in BOOLEAN
    /\ runOnceMode \in BOOLEAN
    /\ persisted \in {[kind |-> k, content |-> DefaultData] : k \in {"absent", "corrupt"}}
    /\ data = DefaultData
    /\ pc = "boot"
    /\ inIIFE = TRUE
    /\ status = AllPending
    /\ batch = NoBatch
    /\ embedsToSend = <<>>
    /\ sendIdx = 0
    /\ firstFail = 0
    /\ written = "no"
    /\ threw = FALSE
    /\ feed = [r \in changelogRSSList |-> <<>>]
    /\ page = 1
    /\ cycles = 0
    /\ runs = 0
    /\ restarts = 0
    /\ published = 0
    /\ startData = DefaultData
    /\ startPersisted = persisted
    /\ changed = FALSE
    /\ replay = FALSE
    /\ announcedIn = [r \in changelogRSSList |-> [d \in Dates |-> 0]]
    /\ requeued = FALSE
    /\ writeFailedEver = FALSE

Init ==
    /\ Boot
    /\ call = NoCall

(* ----------------------------------------------------- cycle start / end *)
\* Variant: scheduler() arms the timer whatever the flag.
SchedulerAlways(once) == "sleep"

\* scheduler(): arm the timer unless --once.
Scheduler(once) == IF ~once THEN "sleep" ELSE "exit"

\* What follows main(): the IIFE calls scheduler() only when main() resolved
\* (its catch only logs); the timer callback calls scheduler() after its
\* try/catch either way.
AfterMain(rejected) ==
    IF inIIFE
    THEN IF rejected THEN "exit" ELSE Scheduler(runOnceMode)
    ELSE Scheduler(runOnceMode)

\* main() up to its first await: a fresh embedsToSend, every task started.
StartMain(d, fromIIFE) ==
    /\ pc' = "tasks"
    /\ inIIFE' = fromIIFE
    /\ status' = AllPending
    /\ batch' = NoBatch
    /\ embedsToSend' = <<>>
    /\ sendIdx' = 0
    /\ firstFail' = 0
    /\ written' = "no"
    /\ threw' = FALSE
    /\ cycles' = cycles + 1
    /\ runs' = runs + 1
    /\ startData' = d
    /\ startPersisted' = persisted
    /\ replay' = (/\ cycles > 0
                  /\ ~changed
                  /\ written = "ok"
                  /\ \A s \in Sources : Fetched(status[s]))
    /\ changed' = FALSE

\* The startup IIFE: db.read(), the two ||= defaults, then main().
LoadOk ==
    /\ pc = "boot"
    /\ persisted.kind \in {"absent", "json"}
    /\ cycles < MaxCycles
    /\ data' = IF persisted.kind = "absent" THEN DefaultData ELSE persisted.content
    /\ StartMain(data', TRUE)
    /\ UNCHANGED <<config, call, persisted, world, restarts, history, writeFailedEver>>

\* db.read() rejects (the file does not parse): the IIFE's catch logs, and
\* nothing is scheduled.
LoadThrow ==
    /\ pc = "boot"
    /\ persisted.kind = "corrupt"
    /\ pc' = "exit"
    /\ UNCHANGED <<config, call, persisted, data, inIIFE, status, batch, embedsToSend,
                   sendIdx, firstFail, written, threw, world, cycles, runs, restarts, startData,
                   startPersisted, changed, replay, history, writeFailedEver>>

\* Variant: a repeating timer, armed from the start of the first cycle on.
TimerRepeats(p) == p \in {"tasks", "send", "sleep"}

\* The one timer there is is armed by scheduler(), which runs after main()
\* has settled: it is pending exactly while the process sleeps.
TimerPending(p) == p = "sleep"

\* The setTimeout callback of scheduler().
TimerFire ==
    /\ TimerPending(pc)
    /\ cycles < MaxCycles
    /\ StartMain(data, FALSE)
    /\ UNCHANGED <<config, call, persisted, data, world, restarts, history, writeFailedEver>>

(* ------------------------------------------------------------ RSS tasks *)
\* Variant: the running maximum starts from 0 instead of the stored date.
InitialOldestZero(storedOldestDate) == 0

\* let oldestDate = storedOldestDate
InitialOldest(storedOldestDate) == storedOldestDate

\* if (jsDate <= storedOldestDate) return;
IsStale(jsDate, storedOldestDate) == Leq(jsDate, storedOldestDate)

\* Variant: the date of the last new item wins, whatever its order.
AdvanceToLast(oldestDate, jsDate) == jsDate

\* if (jsDate > oldestDate) oldestDate = jsDate;
Advance(oldestDate, jsDate) == IF Gt(jsDate, oldestDate) THEN jsDate ELSE oldestDate

\* Variant: no try/catch in the task; its rejection rejects Promise.all.
TaskErrorEscapes == FALSE

\* The try/catch around each task: a thrown error is logged and the task's
\* promise resolves, so Promise.all never rejects.
TaskErrorCaught == TRUE

\* One turn of items.forEach: acc is [oldest, pushed, thrown].
\* determineCategory(title, rss) calls title.includes and throws on a title
\* that is no string; content.replaceAll throws on a content that is none.
ForEachItem(v, rss, storedOldestDate, acc) ==
    IF ~v.titleIsString THEN [acc EXCEPT !.thrown = TRUE]
    ELSE IF IsStale(v.pubDate, storedOldestDate) THEN acc
    ELSE IF ~v.contentIsString
         THEN [acc EXCEPT !.oldest = Advance(acc.oldest, v.pubDate), !.thrown = TRUE]
         ELSE [acc EXCEPT !.oldest = Advance(acc.oldest, v.pubDate),
                          !.pushed = Append(acc.pushed, RSSEmbed(rss, v.pubDate))]

\* items.forEach over the batch, stopping at the first throw.
RECURSIVE ProcessItems(_, _, _, _)
ProcessItems(items, rss, storedOldestDate, acc) ==
    IF items = <<>> \/ acc.thrown THEN acc
    ELSE ProcessItems(Tail(items), rss, storedOldestDate,
                      ForEachItem(Head(items), rss, storedOldestDate, acc))

\* A task ends without touching db.data: by a throw its catch logs
\* (thrown = TRUE) or by a logged else branch / early return.
TaskEnds(s, st, thrown) ==
    /\ status' = [status EXCEPT ![s] = st]
    /\ IF thrown /\ ~TaskErrorCaught
       THEN pc' = AfterMain(TRUE) /\ threw' = TRUE
       ELSE pc' = pc /\ threw' = threw

\* The embeds a task pushed, recorded per feed and date.
Record(rss, pushed) ==
    LET ds == {pushed[i].time : i \in DOMAIN pushed} \cap Dates
    IN /\ announcedIn' = [announcedIn EXCEPT ![rss] =
                            [d \in Dates |-> IF d \in ds /\ @[d] = 0 THEN cycles ELSE @[d]]]
       /\ requeued' = (requeued \/ \E d \in ds : announcedIn[rss][d] \notin {0, cycles})

TaskFrame == <<config, call, persisted, inIIFE, sendIdx, firstFail, written, world, cycles,
               runs, restarts, startData, startPersisted, changed, replay, writeFailedEver>>

\* axios.get rejects: timeout, network error, or a status outside 2xx.
RSSFetchError(rss) ==
    /\ pc = "tasks" /\ status[rss] = "pending"
    /\ TaskEnds(rss, "failed", TRUE)
    /\ UNCHANGED <<TaskFrame, data, batch, embedsToSend, history>>

\* A 2xx status other than 200: the else branch logs it.
RSSNot200(rss) ==
    /\ pc = "tasks" /\ status[rss] = "pending"
    /\ TaskEnds(rss, "failed", FALSE)
    /\ UNCHANGED <<TaskFrame, data, batch, embedsToSend, history>>

\* The body holds no rss.channel: parsedResponse.rss.channel throws.
RSSMalformed(rss) ==
    /\ pc = "tasks" /\ status[rss] = "pending"
    /\ TaskEnds(rss, "failed", TRUE)
    /\ UNCHANGED <<TaskFrame, data, batch, embedsToSend, history>>

\* The channel holds no item: if (!items) return logger.error(...)
RSSNoItems(rss) ==
    /\ pc = "tasks" /\ status[rss] = "pending"
    /\ feed[rss] = <<>>
    /\ TaskEnds(rss, "skipped", FALSE)
    /\ UNCHANGED <<TaskFrame, data, batch, embedsToSend, history>>

\* Status 200 and a channel with items: the forEach, then the watermark.
RSSItems(rss) ==
    /\ pc = "tasks" /\ status[rss] = "pending"
    /\ feed[rss] # <<>>
    /\ LET stored == StoredOldestDate(data, rss)
           r == ProcessItems(feed[rss], rss, stored,
                             [oldest |-> InitialOldest(stored), pushed |-> <<>>,
                              thrown |-> FALSE])
       IN /\ embedsToSend' = embedsToSend \o r.pushed
          /\ data' = IF r.thrown THEN data
                     ELSE [data EXCEPT !.lastRSSDate[rss] = r.oldest]
          /\ TaskEnds(rss, IF r.thrown THEN "itemfail" ELSE "ok", r.thrown)
          /\ Record(rss, r.pushed)
    /\ batch' = [batch EXCEPT ![rss] = feed[rss]]
    /\ UNCHANGED TaskFrame

(* ---------------------------------------------------------- WinBox task *)
WinBoxFetchError ==
    /\ pc = "tasks" /\ status[winboxPage] = "pending"
    /\ TaskEnds(winboxPage, "failed", TRUE)
    /\ UNCHANGED <<TaskFrame, data, batch, embedsToSend, history>>

WinBoxNot200 ==
    /\ pc = "tasks" /\ status[winboxPage] = "pending"
    /\ TaskEnds(winboxPage, "failed", FALSE)
    /\ UNCHANGED <<TaskFrame, data, batch, embedsToSend, history>>

\* winboxRegex.exec(resp) is null: null[1] throws.
WinBoxNoMatch ==
    /\ pc = "tasks" /\ status[winboxPage] = "pending"
    /\ TaskEnds(winboxPage, "failed", TRUE)
    /\ UNCHANGED <<TaskFrame, data, batch, embedsToSend, history>>

\* Variant: only a version above the stored one counts as new.
VersionIsHigher(lastWinBoxVersion, parsedVer) == parsedVer > lastWinBoxVersion

\* if (db.data.lastWinBoxVersion === parsedVer) return;
VersionIsNew(lastWinBoxVersion, parsedVer) == lastWinBoxVersion # parsedVer

\* The pattern matches: skip when the version is the stored one, else store
\* it and queue an embed.
WinBoxVersion ==
    /\ pc = "tasks" /\ status[winboxPage] = "pending"
    /\ LET parsedVer == page
       IN IF ~VersionIsNew(data.lastWinBoxVersion, parsedVer)
          THEN UNCHANGED <<data, embedsToSend>>
          ELSE /\ data' = [data EXCEPT !.lastWinBoxVersion = parsedVer]
               /\ embedsToSend' = Append(embedsToSend, WinBoxEmbed(parsedVer))
    /\ TaskEnds(winboxPage, "ok", FALSE)
    /\ UNCHANGED <<TaskFrame, batch, history>>

(* ------------------------------------------------------- write and send *)
\* Variant: no try/catch around Hook.send; a rejected send rejects main().
SendErrorEscapes == FALSE

\* The catch around Hook.send: a rejected send is logged and the loop goes on.
SendErrorCaught == TRUE

\* Variant: the debug flag is not looked at before the send loop.
SendsSuppressedNever(debug) == FALSE

\* if (debugMode) { ...; return; }
SendsSuppressed(debug) == debug

\* main() after the send loop's last turn, or with nothing to send.
MainReturns ==
    /\ pc' = AfterMain(FALSE)
    /\ threw' = FALSE

\* main() rejects: whoever awaited it catches and logs.
MainRejects ==
    /\ pc' = AfterMain(TRUE)
    /\ threw' = TRUE

\* await db.write() resolves once every task has settled. In debug mode main
\* returns; else the loop is over embedsToSend.reverse(), which reverses the
\* array in place, and awaits the first Hook.send.
WriteOk ==
    /\ pc = "tasks" /\ Settled
    /\ persisted' = [kind |-> "json", content |-> data]
    /\ written' = "ok"
    /\ IF SendsSuppressed(debugMode)
       THEN MainReturns /\ UNCHANGED embedsToSend
       ELSE /\ embedsToSend' = Reverse(embedsToSend)
            /\ IF embedsToSend = <<>> THEN MainReturns
               ELSE pc' = "send" /\ threw' = threw
    /\ UNCHANGED <<config, call, data, inIIFE, status, batch, sendIdx, firstFail, world,
                   cycles, runs, restarts, startData, startPersisted, changed, replay,
                   history, writeFailedEver>>

\* await db.write() rejects: the file keeps its content and main() rejects
\* before the send loop.
WriteFail ==
    /\ pc = "tasks" /\ Settled
    /\ written' = "failed"
    /\ writeFailedEver' = TRUE
    /\ MainRejects
    /\ UNCHANGED <<config, call, persisted, data, inIIFE, status, batch, embedsToSend,
                   sendIdx, firstFail, world, cycles, runs, restarts, startData,
                   startPersisted, changed, replay, history>>

\* One turn of the send loop: await Hook.send(v) resolves (ok) or rejects.
Send(ok) ==
    /\ pc = "send"
    /\ sendIdx' = sendIdx + 1
    /\ firstFail' = IF ~ok /\ firstFail = 0 THEN sendIdx + 1 ELSE firstFail
    /\ IF ~ok /\ ~SendErrorCaught THEN MainRejects
       ELSE IF sendIdx + 1 = Len(embedsToSend) THEN MainReturns
       ELSE pc' = pc /\ threw' = threw
    /\ UNCHANGED <<config, call, persisted, data, inIIFE, status, batch, embedsToSend,
                   written, world, cycles, runs, restarts, startData, startPersisted,
                   changed, replay, history, writeFailedEver>>

SendOk == Send(TRUE)
SendFail == Send(FALSE)

(* ---------------------------------------------------------- environment *)
\* Between cycles the vendor puts a new item at the head of a feed.
Publish(rss, v) ==
    /\ pc \in {"boot", "sleep"}
    /\ published < MaxItems
    /\ feed' = [feed EXCEPT ![rss] = <<v>> \o @]
    /\ published' = published + 1
    /\ changed' = TRUE
    /\ UNCHANGED <<config, call, persisted, data, pc, inIIFE, status, batch, embedsToSend,
                   sendIdx, firstFail, written, threw, page, cycles, runs, restarts,
                   startData, startPersisted, replay, history, writeFailedEver>>

\* Between cycles the download page shows another WinBox version.
Release(v) ==
    /\ pc \in {"boot", "sleep"}
    /\ published < MaxItems
    /\ v # page
    /\ page' = v
    /\ published' = published + 1
    /\ changed' = TRUE
    /\ UNCHANGED <<config, call, persisted, data, pc, inIIFE, status, batch, embedsToSend,
                   sendIdx, firstFail, written, threw, feed, cycles, runs,
                   restarts, startData, startPersisted, replay, history,
                   writeFailedEver>>

\* The process ends (on its own after "exit", or killed while it sleeps) and
\* is started again with the same flags: db.data is gone, the file stays.
Restart ==
    /\ pc \in {"sleep", "exit"}
    /\ restarts < MaxRestarts
    /\ restarts' = restarts + 1
    /\ pc' = "boot"
    /\ data' = DefaultData
    /\ runs' = 0
    /\ threw' = FALSE
    /\ UNCHANGED <<config, call, persisted, inIIFE, status, batch, embedsToSend, sendIdx,
                   firstFail, written, world, cycles, startData,
                   startPersisted, changed, replay, history, writeFailedEver>>

(* -------------------------------------------------------- specification *)
Next ==
    \/ LoadOk
    \/ LoadThrow
    \/ TimerFire
    \/ \E rss \in changelogRSSList : RSSFetchError(rss)
    \/ \E rss \in changelogRSSList : RSSNot200(rss)
    \/ \E rss \in changelogRSSList : RSSMalformed(rss)
    \/ \E rss \in changelogRSSList : RSSNoItems(rss)
    \/ \E rss \in changelogRSSList : RSSItems(rss)
    \/ WinBoxFetchError
    \/ WinBoxNot200
    \/ WinBoxNoMatch
    \/ WinBoxVersion
    \/ WriteOk
    \/ WriteFail
    \/ SendOk
    \/ SendFail
    \/ \E rss \in changelogRSSList, v \in Items : Publish(rss, v)
    \/ \E v \in Versions : Release(v)
    \/ Restart

Spec == Init /\ [][Next]_vars

(* ------------------------------------------------- one item, on its own *)
\* The body of items.forEach for one new item: the category, the description
\* and the colour are functions of the item and its feed alone.
process == <<debugMode, runOnceMode, persisted, data, pc, inIIFE, status, batch,
             embedsToSend, sendIdx, firstFail, written, threw, feed, page, cycles,
             runs, restarts, published, startData, startPersisted, changed, replay,
             announcedIn, requeued, writeFailedEver>>

\* The bracketed tags determineCategory looks for.
Tags == {"[long-term]", "[stable]", "[testing]", "[development]"}
\* A title is a sequence of words: a tag, a tag in another case, another word.
Words == Tags \cup {"[Stable]", "RouterOS"}
Titles == UNION {[1..n -> Words] : n \in 0..MaxTitle}

\* title.includes(tag): a case-sensitive substring match.
Includes(title, tag) == \E i \in DOMAIN title : title[i] = tag

\* The value of a function that returns nothing.
NoCategory == "undefined"

embedColors ==
    [c \in {"Long-term", "Stable", "Testing", "Development"} |->
        CASE c = "Long-term" -> "#3498DB"
          [] c = "Stable" -> "#2ECC71"
          [] c = "Testing" -> "#E74C3C"
          [] c = "Development" -> "#992D22"]

\* Variant: the feed decides first, the title only for an unknown source.
SourceDecides(title, rssSource) ==
    IF rssSource = 1 THEN "Stable"
    ELSE IF rssSource = 2 THEN "Development"
    ELSE IF rssSource = 3 THEN "Testing"
    ELSE IF Includes(title, "[long-term]") THEN "Long-term"
    ELSE IF Includes(title, "[stable]") THEN "Stable"
    ELSE IF Includes(title, "[testing]") THEN "Testing"
    ELSE IF Includes(title, "[development]") THEN "Development"
    ELSE NoCategory

\* determineCategory(title, rssSource); feed i is changelogRSSList[i - 1].
determineCategory(title, rssSource) ==
    IF Includes(title, "[long-term]") THEN "Long-term"
    ELSE IF Includes(title, "[stable]") THEN "Stable"
    ELSE IF Includes(title, "[testing]") THEN "Testing"
    ELSE IF Includes(title, "[development]") THEN "Development"
    ELSE IF rssSource = 1 THEN "Stable"
    ELSE IF rssSource = 2 THEN "Development"
    ELSE IF rssSource = 3 THEN "Testing"
    ELSE NoCategory

\* category in embedColors ? embedColors[category] : "#23272A"
Color(category) ==
    IF category \in DOMAIN embedColors THEN embedColors[category] ELSE "#23272A"

\* A line of text: its length in characters, and whether the formatting has
\* put "..." at its end (the three characters are counted in len).
Line(n) == [len |-> n, marker |-> FALSE]
LineLengths == {0, LongLine}
\* stripHtml(content.replaceAll("<br>", "\n")).result.split("\n"): at least
\* one line.
Stripped == UNION {[1..n -> {Line(k) : k \in LineLengths}] : n \in 1..MaxLines}

Min(a, b) == IF a < b THEN a ELSE b

\* strippedDesc.length = Math.min(strippedDesc.length, 8)
Shorten(strippedDesc) == SubSeq(strippedDesc, 1, Min(Len(strippedDesc), 8))

\* if (strippedDesc.length === 8) strippedDesc[7] += "..."
Mark(strippedDesc) ==
    IF Len(strippedDesc) = 8
    THEN [strippedDesc EXCEPT ![8] = [len |-> @.len + 3, marker |-> TRUE]]
    ELSE strippedDesc

RECURSIVE Chars(_)
Chars(lines) == IF lines = <<>> THEN 0 ELSE lines[1].len + Chars(Tail(lines))

\* strippedDesc.join("\n").length
JoinLength(lines) == Chars(lines) + Len(lines) - 1

\* The index in the joined string at which line i starts.
Start(lines, i) == Chars(SubSeq(lines, 1, i - 1)) + (i - 1)

\* effectiveDesc.slice(0, n), as lines.
Slice(lines, n) ==
    LET kept == {i \in DOMAIN lines : Start(lines, i) <= n}
        last == CHOOSE i \in kept : \A k \in kept : k <= i
    IN  [i \in 1..last |->
            IF lines[i].len <= n - Start(lines, i)
            THEN lines[i]
            ELSE Line(n - Start(lines, i))]

\* text + "..."
Dots(lines) ==
    [lines EXCEPT ![Len(lines)] = [len |-> @.len + 3, marker |-> TRUE]]

\* if (effectiveDesc.length > 2048) effectiveDesc = effectiveDesc.slice(0, 2045) + "..."
Limit(lines) ==
    IF JoinLength(lines) > 2048 THEN Dots(Slice(lines, 2045)) ELSE lines

\* The item as the forEach body gets it.
NewCall(title, rssSource, strippedDesc) ==
    [step |-> "item", title |-> title, rssSource |-> rssSource,
     content |-> strippedDesc, category |-> NoCategory,
     strippedDesc |-> strippedDesc, color |-> "none"]

\* Titles from every source (the download page stands for a source that is
\* no feed), and descriptions of every shape.
Calls ==
    {NewCall(t, s, <<Line(0)>>) : t \in Titles, s \in Sources}
        \cup {NewCall(<<>>, 1, d) : d \in Stripped}

FormatInit ==
    /\ Boot
    /\ ~debugMode /\ ~runOnceMode
    /\ persisted.kind = "absent"
    /\ call \in Calls

\* const category = determineCategory(title, rss)
Categorize ==
    /\ call.step = "item"
    /\ call' = [call EXCEPT !.step = "category",
                            !.category = determineCategory(call.title, call.rssSource)]
    /\ UNCHANGED process

\* strippedDesc.length = Math.min(strippedDesc.length, 8)
ShortenDesc ==
    /\ call.step = "category"
    /\ call' = [call EXCEPT !.step = "shortened",
                            !.strippedDesc = Shorten(call.strippedDesc)]
    /\ UNCHANGED process

\* if (strippedDesc.length === 8) strippedDesc[7] += "..."
MarkDesc ==
    /\ call.step = "shortened"
    /\ call' = [call EXCEPT !.step = "marked",
                            !.strippedDesc = Mark(call.strippedDesc)]
    /\ UNCHANGED process

\* let effectiveDesc = strippedDesc.join("\n"), limited to 2048 characters
JoinDesc ==
    /\ call.step = "marked"
    /\ call' = [call EXCEPT !.step = "joined",
                            !.strippedDesc = Limit(call.strippedDesc)]
    /\ UNCHANGED process

\* new MessageBuilder()...setColor(...)
BuildEmbed ==
    /\ call.step = "joined"
    /\ call' = [call EXCEPT !.step = "embed", !.color = Color(call.category)]
    /\ UNCHANGED process

FormatNext ==
    \/ Categorize
    \/ ShortenDesc
    \/ MarkDesc
    \/ JoinDesc
    \/ BuildEmbed

SpecFormat == FormatInit /\ [][FormatNext]_vars

(* ------------------------------------------------------------ properties *)
\* The watermark a feed's task read when the cycle started.
W(rss) == StoredOldestDate(startData, rss)

\* An embed of the feed item (rss, d) is in embedsToSend.
Queued(rss, d) ==
    \E i \in DOMAIN embedsToSend : embedsToSend[i].src = rss /\ embedsToSend[i].time = d

\* The embeds a source has in embedsToSend.
EmbedsOf(s) == {i \in DOMAIN embedsToSend : embedsToSend[i].src = s}

\* The parseable dates of a batch.
ValidDates(items) == {items[i].pubDate : i \in DOMAIN items} \cap Dates

SetMax(S) == CHOOSE m \in S : \A x \in S : x <= m

\* The watermark the file holds for a feed (0 when the file holds none).
PersistedDate(p, rss) ==
    IF p.kind = "json" THEN StoredOldestDate(p.content, rss) ELSE 0

\* A process is past its startup and the variables of its last cycle are its own.
Started == pc # "boot" /\ runs > 0

\* The last cycle of this process is over.
CycleOver == pc \in {"sleep", "exit"} /\ runs > 0

\* C1: for a feed whose task got status 200 and processed its batch to the
\* end, an item is in the queue if and only if its publication date is
\* strictly greater than the watermark stored when the cycle started.
C1_QueuedIffNewer ==
    Started =>
        \A rss \in changelogRSSList :
            status[rss] = "ok" =>
                \A i \in DOMAIN batch[rss] :
                    Queued(rss, batch[rss][i].pubDate)
                        <=> Gt(batch[rss][i].pubDate, W(rss))

\* C2: provided no db.write failed, no feed item (feed, publication date)
\* that was queued in one cycle is queued again in a later cycle, restarts
\* included.
C2_QueuedAtMostOnce == writeFailedEver \/ ~requeued

\* C3: no step of a running process lowers a feed's watermark in db.data,
\* and no step at all lowers the watermark the file holds.
C3_WatermarkMonotone ==
    [][\A rss \in changelogRSSList :
          /\ pc' # "boot" =>
                StoredOldestDate(data', rss) >= StoredOldestDate(data, rss)
          /\ PersistedDate(persisted', rss) >= PersistedDate(persisted, rss)]_vars

\* C3 witness: an entirely stale batch was processed and the watermark kept
\* its value.
C3_Witness ==
    /\ Started
    /\ \E rss \in changelogRSSList :
          /\ status[rss] = "ok"
          /\ W(rss) > 0
          /\ batch[rss] # <<>>
          /\ \A i \in DOMAIN batch[rss] : Leq(batch[rss][i].pubDate, W(rss))
          /\ data.lastRSSDate[rss] = W(rss)

\* C4: once a feed's batch was processed to the end, the feed's watermark is
\* the maximum of the watermark before the cycle and of the publication
\* dates of all items of the batch, whatever their order.
C4_WatermarkIsMax ==
    Started =>
        \A rss \in changelogRSSList :
            status[rss] = "ok" =>
                data.lastRSSDate[rss] = SetMax({W(rss)} \cup ValidDates(batch[rss]))

\* C4 witness: a batch whose items are not newest-first was processed and the
\* watermark is the date of its second item.
C4_Witness ==
    /\ Started
    /\ \E rss \in changelogRSSList :
          /\ status[rss] = "ok"
          /\ Len(batch[rss]) = 2
          /\ Gt(batch[rss][2].pubDate, batch[rss][1].pubDate)
          /\ W(rss) < batch[rss][1].pubDate
          /\ data.lastRSSDate[rss] = batch[rss][2].pubDate

\* C5: a cycle in which every source returns what it returned in the cycle
\* before (whose write succeeded), with no item newer than the watermark,
\* queues nothing and, once written, leaves the file as it was.
C5_SecondRunIdempotent ==
    (/\ Started
     /\ replay
     /\ \A s \in Sources : Fetched(status[s])
     /\ \A rss \in changelogRSSList :
           \A i \in DOMAIN batch[rss] : ~Gt(batch[rss][i].pubDate, W(rss)))
    => /\ embedsToSend = <<>>
       /\ written = "ok" => persisted = startPersisted

\* The watermark of a source is the one its task found when the cycle started.
WatermarkKept(s) ==
    IF s = winboxPage
    THEN data.lastWinBoxVersion = startData.lastWinBoxVersion
    ELSE data.lastRSSDate[s] = startData.lastRSSDate[s]

\* A source whose task ran to its end has its new records in the queue and
\* its watermark advanced over them.
Delivered(s) ==
    IF s = winboxPage
    THEN data.lastWinBoxVersion # startData.lastWinBoxVersion =>
            \E i \in EmbedsOf(s) : embedsToSend[i].ver = data.lastWinBoxVersion
    ELSE /\ \A i \in DOMAIN batch[s] :
               Gt(batch[s][i].pubDate, W(s)) => Queued(s, batch[s][i].pubDate)
         /\ data.lastRSSDate[s] = SetMax({W(s)} \cup ValidDates(batch[s]))

\* C6: in a cycle where the fetch of some source failed, every source whose
\* task ran to its end still has its new records queued and its watermark
\* advanced, the failed source keeps its watermark, and the cycle still goes
\* through the write and the sends: once the cycle is over the write was
\* attempted, a successful write has put the advanced watermarks in the file
\* and, outside debug mode, every queued embed has had its send attempt.
C6_FailureIsolated ==
    (Started /\ \E f \in Sources : status[f] = "failed") =>
        /\ \A s \in Sources :
              /\ status[s] = "failed" => WatermarkKept(s) /\ EmbedsOf(s) = {}
              /\ status[s] = "ok" => Delivered(s)
        /\ CycleOver =>
              /\ Settled
              /\ written # "no"
              /\ written = "ok" =>
                    /\ persisted = [kind |-> "json", content |-> data]
                    /\ ~debugMode => sendIdx = Len(embedsToSend)

\* C6 witness: a cycle is over in which one feed failed to fetch and another
\* feed's new item was queued, written to the file and sent.
C6_Witness ==
    /\ CycleOver /\ ~debugMode /\ written = "ok"
    /\ \E f, t \in changelogRSSList :
          /\ status[f] = "failed"
          /\ status[t] = "ok"
          /\ EmbedsOf(t) # {}
          /\ PersistedDate(persisted, t) > PersistedDate(startPersisted, t)
    /\ sendIdx = Len(embedsToSend)

\* C7: a source whose processing failed at any point of the cycle has no
\* embed in the queue and keeps the watermark it had when the cycle started.
C7_FailedSourceContributesNothing ==
    Started =>
        \A s \in Sources :
            status[s] \in {"failed", "itemfail"} =>
                EmbedsOf(s) = {} /\ WatermarkKept(s)

\* C8: outside debug mode, once the write of a cycle succeeded, a failed send
\* does not end the cycle by an exception, the cycle ends only after every
\* queued embed has had its send attempt, and the file keeps the watermarks
\* written in this cycle.
C8_SendFailureTolerated ==
    (Started /\ ~debugMode /\ written = "ok") =>
        /\ persisted = [kind |-> "json", content |-> data]
        /\ pc = "send" => sendIdx < Len(embedsToSend)
        /\ CycleOver => sendIdx = Len(embedsToSend) /\ ~threw

\* C8 witness: a cycle is over in which a send failed and a later embed was
\* still attempted.
C8_Witness ==
    /\ CycleOver /\ ~debugMode /\ written = "ok"
    /\ firstFail > 0
    /\ firstFail < Len(embedsToSend)
    /\ sendIdx = Len(embedsToSend)

\* C9: without --once, after a cycle that ended by an exception the process
\* has a next cycle scheduled.
C9_RescheduledAfterException ==
    (~runOnceMode /\ runs > 0 /\ threw) => pc # "exit"

\* C10: with --once a process never arms the timer and never runs a second
\* cycle, and it ends after exactly one cycle when its startup load did not
\* throw; without --once the timer is armed after every cycle that returned.
C10_OnceOnly ==
    /\ runOnceMode =>
          /\ pc # "sleep"
          /\ runs <= 1
          /\ (pc = "exit" /\ persisted.kind # "corrupt") => runs = 1
    /\ (~runOnceMode /\ CycleOver /\ ~threw) => pc = "sleep"

\* C10 witness: with --once, a process has ended after one cycle that failed.
C10_Witness ==
    /\ runOnceMode
    /\ pc = "exit"
    /\ runs = 1
    /\ threw

\* C11: in debug mode no Hook.send is ever attempted; in either mode the
\* watermarks after a task are the same function of what the task fetched
\* (advanced over the batch when it ran to its end, kept otherwise), and a
\* successful write puts them in the file.
C11_DebugOnlySkipsSends ==
    /\ debugMode => sendIdx = 0 /\ pc # "send"
    /\ Started =>
          /\ \A s \in Sources :
                /\ status[s] = "ok" => Delivered(s)
                /\ status[s] \in {"failed", "skipped", "itemfail"} => WatermarkKept(s)
          /\ written = "ok" => persisted = [kind |-> "json", content |-> data]

\* C11 witness: a debug cycle is over that queued an embed, sent nothing and
\* wrote an advanced watermark to the file.
C11_Witness ==
    /\ debugMode /\ CycleOver /\ written = "ok"
    /\ embedsToSend # <<>>
    /\ sendIdx = 0
    /\ \E rss \in changelogRSSList :
          /\ status[rss] = "ok"
          /\ PersistedDate(persisted, rss) > PersistedDate(startPersisted, rss)

\* C12: when the WinBox task extracted a version, an embed is queued if and
\* only if that version differs from the one stored when the cycle started,
\* and the stored version is the extracted one; while the cycle runs that is
\* the version the page shows.
C12_WinBoxAnyDifference ==
    (Started /\ status[winboxPage] = "ok") =>
        /\ pc \in {"tasks", "send"} => data.lastWinBoxVersion = page
        /\ EmbedsOf(winboxPage) # {}
              <=> data.lastWinBoxVersion # startData.lastWinBoxVersion
        /\ \A i \in EmbedsOf(winboxPage) : embedsToSend[i].ver = data.lastWinBoxVersion

\* C12 witness: the page went back to a lower version than the stored one and
\* that version was queued and stored.
C12_Witness ==
    /\ Started /\ status[winboxPage] = "ok"
    /\ startData.lastWinBoxVersion # EmptyVersion
    /\ data.lastWinBoxVersion < startData.lastWinBoxVersion
    /\ \E i \in EmbedsOf(winboxPage) : embedsToSend[i].ver = data.lastWinBoxVersion

\* C13: an item whose publication date does not parse is never queued and
\* never becomes a feed's watermark.
C13_UnparseableExcluded ==
    /\ \A i \in DOMAIN embedsToSend : embedsToSend[i].time # NaN
    /\ \A rss \in changelogRSSList : data.lastRSSDate[rss] # NaN

\* C14: a process never ends its startup without having run a cycle: with the
\* file absent or unparseable the state is the default and main() is called.
C14_LoadFailsSoft ==
    /\ ~(pc = "exit" /\ runs = 0)
    /\ (Started /\ startPersisted.kind # "json") => startData = DefaultData

\* C15: outside debug mode the embeds of feed items are sent oldest first:
\* no embed is attempted before one with an earlier publication date.
C15_SentOldestFirst ==
    (Started /\ ~debugMode /\ written = "ok") =>
        \A i, j \in 1..sendIdx :
            (/\ i < j
             /\ embedsToSend[i].src \in changelogRSSList
             /\ embedsToSend[j].src \in changelogRSSList)
            => ~Gt(embedsToSend[i].time, embedsToSend[j].time)

\* C18: in every cycle db.write is attempted exactly once: only after every
\* task has settled, before any send, also when nothing new was found, and
\* never a second time in the same cycle.
C18_WriteOncePerCycle ==
    /\ [](/\ written # "no" => \A s \in Sources : status[s] # "pending"
          /\ (sendIdx > 0 \/ pc = "send") => written = "ok"
          /\ CycleOver => written # "no")
    /\ [][(written # "no" /\ cycles' = cycles) =>
             (written' = written /\ persisted' = persisted)]_vars

\* C18 witness: a cycle is over that found nothing new and still wrote.
C18_Witness ==
    /\ CycleOver /\ written = "ok"
    /\ embedsToSend = <<>>
    /\ data = startData
    /\ persisted = [kind |-> "json", content |-> data]

\* The last cycle went through its write and, when it is to send, its sends.
CycleFinished ==
    /\ written # "no"
    /\ (written = "ok" /\ ~debugMode) => sendIdx = Len(embedsToSend)

\* C19: a cycle starts only while no cycle is running: at startup, or from
\* the timer after the previous main() has gone through its write and sends.
C19_CyclesNeverOverlap ==
    [][cycles' # cycles =>
          /\ pc \in {"boot", "sleep"}
          /\ pc = "sleep" => CycleFinished]_vars

\* C19 witness: the second cycle of a process is running.
C19_Witness ==
    /\ runs = 2
    /\ pc = "tasks"
    /\ ~inIIFE

\* A source's watermark in db.data is beyond the one of the cycle's start.
Advanced(s) ==
    IF s = winboxPage
    THEN data.lastWinBoxVersion # startData.lastWinBoxVersion
    ELSE StoredOldestDate(data, s) > W(s)

\* C20: outside debug mode, when a cycle is over every record that advanced
\* a watermark in db.data has had its send attempt, also when db.write failed.
C20_DetectedRecordsAttempted ==
    (CycleOver /\ ~debugMode) =>
        \A s \in Sources : Advanced(s) => sendIdx = Len(embedsToSend)

\* The tags the title of the call contains.
TagsIn(title) == {t \in Tags : Includes(title, t)}

\* C16: a title with a tag resolves to the category of a tag it contains,
\* whatever the source; a title with no tag resolves to the default of its
\* feed (Stable, Development, Testing), to nothing for a source that is no
\* feed; no category gets the neutral colour #23272A, a category its fixed
\* colour, Testing #E74C3C.
C16_CategoryResolution ==
    call.step = "embed" =>
        LET tagCategory == [t \in Tags |->
                CASE t = "[long-term]" -> "Long-term"
                  [] t = "[stable]" -> "Stable"
                  [] t = "[testing]" -> "Testing"
                  [] t = "[development]" -> "Development"]
            sourceDefault == <<"Stable", "Development", "Testing">>
            found == TagsIn(call.title)
        IN  /\ found # {} => call.category \in {tagCategory[t] : t \in found}
            /\ (found = {} /\ call.rssSource \in changelogRSSList)
                  => call.category = sourceDefault[call.rssSource]
            /\ (found = {} /\ call.rssSource \notin changelogRSSList)
                  => call.category = NoCategory
            /\ call.category = NoCategory => call.color = "#23272A"
            /\ call.category # NoCategory =>
                  /\ call.color = embedColors[call.category]
                  /\ call.color # "#23272A"
            /\ call.category = "Testing" <=> call.color = "#E74C3C"

\* C16 witness: a [stable] title from the testing feed became a Stable embed.
C16_Witness ==
    /\ call.step = "embed"
    /\ TagsIn(call.title) = {"[stable]"}
    /\ call.rssSource = 3
    /\ call.category = "Stable"
    /\ call.color = "#2ECC71"

\* C17: after the 8-line step the description has at most 8 lines, and a
\* line carries the marker exactly when it is the 8th and the input had more
\* than 8 lines.
C17_MarkerIffMoreThanEight ==
    call.step = "marked" =>
        /\ Len(call.strippedDesc) = Min(Len(call.content), 8)
        /\ \A i \in DOMAIN call.strippedDesc :
              call.strippedDesc[i].marker <=> (i = 8 /\ Len(call.content) > 8)

====
